---------------------------- MODULE Spec2Model ----------------------------
(***************************************************************************)
(* cryptomite: the bit-packed boolean list (utils.CompactBoolList), the    *)
(* prime searches of utils.py, the Von Neumann extractor and the output    *)
(* loop of trevisan.Trevisan.extract.                                      *)
(*                                                                         *)
(* Bits given by callers are the integers 0 and 1; the values the list     *)
(* hands back are Python bools, modelled as TRUE and FALSE.  Python's      *)
(* True == 1 and False == 0 is the operator PyEq.                          *)
(***************************************************************************)
EXTENDS Integers, Sequences, FiniteSets, TLC

VARIABLES
    self,        \* the CompactBoolList under test: [data, length, index]
    iterable,    \* the argument of CompactBoolList.__init__
    pos,         \* how many items of iterable the constructor has consumed
    pc,          \* "init" while __init__ runs, "ready" once it has returned
    ret,         \* the last call on self and what it gave back
    trav,        \* the traversals of self that clients hold
    fn,          \* the function of utils.py being called
    arg,         \* its argument
    npc,         \* where the call stands
    k,           \* the local k of the running prime search
    next_p,      \* closest_prime's next_p
    previous_p,  \* closest_prime's previous_p
    out,         \* the value returned: [b] for is_prime, [n] for the searches
    vn_bits,     \* von_neumann's argument
    vn_out,      \* what von_neumann returned
    vpc,         \* "call" before von_neumann runs, "done" after
    config,      \* Trevisan.config: the output length m the engine derived
    ext,         \* Trevisan.ext: the engine, as far as extract can tell
    tpc,         \* where Trevisan.extract stands
    i,           \* extract's loop index
    bits,        \* extract's local list of output bits
    input1,      \* extract's first argument, the weak input
    input2,      \* extract's second argument, the seed
    result,      \* the list extract returned
    ncalls       \* how many calls of extract have begun

bufVars == <<self, iterable, pos, pc, ret, trav>>
ntVars == <<fn, arg, npc, k, next_p, previous_p, out>>
vnVars == <<vn_bits, vn_out, vpc>>
trevVars == <<config, ext, tpc, i, bits, input1, input2, result, ncalls>>

notBuf == <<ntVars, vnVars, trevVars>>
notNt == <<bufVars, vnVars, trevVars>>
notVn == <<bufVars, ntVars, trevVars>>
notTrev == <<bufVars, ntVars, vnVars>>

vars == <<bufVars, ntVars, vnVars, trevVars>>

-----------------------------------------------------------------------------
(* Bounds of the model *)

\* longest list given to the constructor or grown by append (crosses one byte)
MaxLen == 9

\* longest list traversed by the iteration protocol
MaxIterLen == 3

\* number of traversals of one list held at the same time
MaxTrav == 2

\* largest argument given to is_prime and to the prime searches
MaxK == 128

\* largest argument given to next_na_set
MaxNaK == 64

\* longest argument given to von_neumann
MaxBits == 9

\* largest output length m of a Trevisan configuration
MaxM == 4

\* number of extract calls made on one Trevisan object
MaxCalls == 2

\* longest weak input and seed handed to extract
MaxInput == 1

\* most items one traversal is followed for (the shared cursor lets a
\* traversal run on past the length of the list)
MaxYield == 4

-----------------------------------------------------------------------------
(* Program constants *)

\* bits per storage byte: index // 8, index % 8
ByteBits == 8

Bit == {0, 1}

RECURSIVE Pow2(_)
\* 1 << n
Pow2(n) == IF n = 0 THEN 1 ELSE 2 * Pow2(n - 1)

RECURSIVE BitOr(_, _)
\* x | mask, bit by bit from the lowest
BitOr(x, mask) ==
    IF x = 0 THEN mask
    ELSE IF mask = 0 THEN x
    ELSE (IF x % 2 = 1 \/ mask % 2 = 1 THEN 1 ELSE 0)
         + 2 * BitOr(x \div 2, mask \div 2)

RECURSIVE BitAndNot(_, _)
\* x & ~mask for x >= 0 (Python's ~mask has every higher bit set)
BitAndNot(x, mask) ==
    IF x = 0 THEN 0
    ELSE (IF x % 2 = 1 /\ mask % 2 = 0 THEN 1 ELSE 0)
         + 2 * BitAndNot(x \div 2, mask \div 2)

RECURSIVE BitAnd(_, _)
\* x & mask
BitAnd(x, mask) ==
    IF x = 0 \/ mask = 0 THEN 0
    ELSE (IF x % 2 = 1 /\ mask % 2 = 1 THEN 1 ELSE 0)
         + 2 * BitAnd(x \div 2, mask \div 2)

\* Python truthiness of an integer bit ("if value:")
Truthy(value) == value # 0

\* Python's b == x for a bool b and an integer bit x
PyEq(b, x) == (b /\ x = 1) \/ (~b /\ x = 0)

\* Python's == on a list of bools and a list of integer bits
PyListEq(bs, xs) ==
    /\ Len(bs) = Len(xs)
    /\ \A j \in 1..Len(xs) : PyEq(bs[j], xs[j])

-----------------------------------------------------------------------------
(* CompactBoolList *)

\* the fields set by __init__ before it reads the iterable
EmptyList == [data |-> << >>, length |-> 0, index |-> 0]

\* _get_byte_and_bit_index
GetByteAndBitIndex(s, index) ==
    LET idx == IF index < 0 THEN index + s.length ELSE index
    IN  [byte_idx |-> idx \div ByteBits, bit_idx |-> idx % ByteBits]

\* a slip in _set_byte_and_bit_index: "=" for "|=", which wipes the other bits
SetByteAndBitIndex_Assign(s, index, value) ==
    LET bb   == GetByteAndBitIndex(s, index)
        old  == s.data[bb.byte_idx + 1]
        mask == Pow2(bb.bit_idx)
    IN  [s EXCEPT !.data[bb.byte_idx + 1] =
            IF Truthy(value) THEN mask ELSE BitAndNot(old, mask)]

\* _set_byte_and_bit_index (bytearray positions are 0-based, sequences 1-based)
SetByteAndBitIndex(s, index, value) ==
    LET bb   == GetByteAndBitIndex(s, index)
        old  == s.data[bb.byte_idx + 1]
        mask == Pow2(bb.bit_idx)
    IN  [s EXCEPT !.data[bb.byte_idx + 1] =
            IF Truthy(value) THEN BitOr(old, mask) ELSE BitAndNot(old, mask)]

\* a slip in the boundary check: "<" for "<=", which refuses index -length
InRange_Strict(s, index) == (0 - s.length) < index /\ index < s.length

\* the boundary check of __getitem__ and __setitem__
InRange(s, index) == (0 - s.length) <= index /\ index < s.length

\* __getitem__ with an integer index
GetItem(s, index) ==
    IF ~InRange(s, index)
    THEN [err |-> "IndexError", val |-> FALSE]
    ELSE LET bb   == GetByteAndBitIndex(s, index)
             mask == Pow2(bb.bit_idx)
         IN  [err |-> "none", val |-> BitAnd(s.data[bb.byte_idx + 1], mask) # 0]

\* __setitem__
SetItem(s, index, value) ==
    IF ~InRange(s, index)
    THEN [err |-> "IndexError", self |-> s]
    ELSE [err |-> "none", self |-> SetByteAndBitIndex(s, index, value)]

\* append
Append_(s, value) ==
    LET grown == IF s.length % ByteBits = 0
                 THEN [s EXCEPT !.data = Append(s.data, 0)]
                 ELSE s
        set   == SetByteAndBitIndex(grown, grown.length, value)
    IN  [set EXCEPT !.length = set.length + 1]

\* __next__: a value and the advanced cursor, or StopIteration and a reset one
Next_(s) ==
    IF s.index < s.length
    THEN [stop |-> FALSE, val |-> GetItem(s, s.index).val,
          self |-> [s EXCEPT !.index = s.index + 1]]
    ELSE [stop |-> TRUE, val |-> FALSE, self |-> [s EXCEPT !.index = 0]]

RECURSIVE Drain(_, _)
\* list(it): __next__ until StopIteration, collecting the values
Drain(s, acc) ==
    LET r == Next_(s)
    IN  IF r.stop THEN [list |-> acc, self |-> r.self]
        ELSE Drain(r.self, Append(acc, r.val))

\* to_list: list(self), where iter(self) is self
ToList(s) == Drain(s, << >>)

RECURSIVE FromList(_, _)
\* the list __init__ leaves behind once it has appended items from..Len(items)
FromList(s, items) ==
    IF items = << >> THEN s
    ELSE FromList(Append_(s, Head(items)), Tail(items))

-----------------------------------------------------------------------------
(* Number theory: is_prime, prime_facto and the prime searches *)

\* floor(sqrt(n)) for n >= 0
FloorSqrt(n) == CHOOSE r \in 0..n : r * r <= n /\ (r + 1) * (r + 1) > n

\* round(sqrt(n)): up when sqrt(n) >= r + 1/2, that is n >= r*r + r + 1/4
\* (sqrt of an integer is never r + 1/2, so ties do not arise)
RoundSqrt(n) ==
    LET r == FloorSqrt(n)
    IN  IF n - r * r > r THEN r + 1 ELSE r

\* a slip in the range: range(2, round(sqrt(n))), which stops one short
IsPrime_Short(n) == \A d \in 2..(RoundSqrt(n) - 1) : n % d # 0

\* is_prime: no divisor in range(2, round(sqrt(n)) + 1)
IsPrime(n) == \A d \in 2..RoundSqrt(n) : n % d # 0

RECURSIVE TrialDivide(_, _, _)
\* the while loop of prime_facto and the append of what is left of n
TrialDivide(n, d, factors) ==
    IF d <= RoundSqrt(n) + 1
    THEN IF n % d = 0
         THEN TrialDivide(n \div d, d, Append(factors, d))
         ELSE TrialDivide(n, d + 1, factors)
    ELSE IF n # 1 THEN Append(factors, n) ELSE factors

RECURSIVE GroupFactors(_, _, _, _)
\* the for loop of prime_facto: equal neighbours raise the last power
GroupFactors(factors, j, factors2, powers) ==
    IF j > Len(factors) THEN [factors |-> factors2, powers |-> powers]
    ELSE IF factors[j] = factors[j - 1]
    THEN GroupFactors(factors, j + 1, factors2,
                      [powers EXCEPT ![Len(powers)] = powers[Len(powers)] + 1])
    ELSE GroupFactors(factors, j + 1, Append(factors2, factors[j]),
                      Append(powers, 1))

\* prime_facto(n), for n >= 2
PrimeFacto(n) ==
    LET factors == TrialDivide(n, 2, << >>)
    IN  GroupFactors(factors, 2, <<factors[1]>>, <<1>>)

RECURSIVE PowMod(_, _, _)
\* pow(b, e, m)
PowMod(b, e, m) == IF e = 0 THEN 1 % m ELSE (b * PowMod(b, e - 1, m)) % m

\* k -= 1; if k % 2 != 0: k = k - 1     (previous_prime)
PreviousStart(kk) == LET k1 == kk - 1 IN IF k1 % 2 # 0 THEN k1 - 1 ELSE k1

\* k -= 1; if k % 2 != 0: k = k + 1     (next_prime, next_na_set)
NextStart(kk) == LET k1 == kk - 1 IN IF k1 % 2 # 0 THEN k1 + 1 ELSE k1

\* a slip in the test: the exponent prime in place of k // prime
OrderDivides_Prime(kk, prime) == PowMod(2, prime, kk + 1) = 1

\* the test of next_na_set's for loop: pow(2, k // prime, k + 1) == 1
OrderDivides(kk, prime) == PowMod(2, kk \div prime, kk + 1) = 1

\* closest_prime's choice between its two candidates
Closest(kk, nxt, prv) == IF nxt - kk >= kk - prv THEN prv ELSE nxt

(* What the functions are meant to compute, stated without their code *)

\* n is a prime number
Prime(n) == n >= 2 /\ \A d \in 2..(n - 1) : n % d # 0

RECURSIVE Order2From(_, _, _)
\* the least e' >= e with 2^e' = 1 mod p, given x = 2^e mod p; 0 when no
\* power up to the pth is 1
Order2From(p, e, x) ==
    IF x = 1 THEN e
    ELSE IF e >= p THEN 0
    ELSE Order2From(p, e + 1, (2 * x) % p)

\* 2 is a primitive root mod p: the multiplicative order of 2 mod p is p - 1
PrimitiveRoot2(p) == p >= 3 /\ Order2From(p, 1, 2 % p) = p - 1

-----------------------------------------------------------------------------
(* von_neumann *)

Min(a, b) == IF a <= b THEN a ELSE b

\* seq[start::step] for start >= 0 and step >= 1
Slice(seq, start, step) ==
    LET n == IF Len(seq) <= start THEN 0
             ELSE (Len(seq) - start + step - 1) \div step
    IN  [j \in 1..n |-> seq[start + (j - 1) * step + 1]]

\* zip(xs, ys): pairs up to the end of the shorter list
Zip(xs, ys) == [j \in 1..Min(Len(xs), Len(ys)) |-> <<xs[j], ys[j]>>]

\* a slip in the comprehension: y kept in place of x
VonNeumann_Second(bs) ==
    LET pairs == Zip(Slice(bs, 0, 2), Slice(bs, 1, 2))
        kept  == SelectSeq(pairs, LAMBDA pr : pr[1] # pr[2])
    IN  [j \in 1..Len(kept) |-> kept[j][2]]

\* [x for x, y in zip(bits[::2], bits[1::2]) if x != y]
VonNeumann(bs) ==
    LET pairs == Zip(Slice(bs, 0, 2), Slice(bs, 1, 2))
        kept  == SelectSeq(pairs, LAMBDA pr : pr[1] # pr[2])
    IN  [j \in 1..Len(kept) |-> kept[j][1]]

-----------------------------------------------------------------------------
(* Trevisan *)

\* a slip in the loop header: range(1, m + 1)
Range_FromOne(m) == [j \in 1..m |-> j]

\* range(m)
Range(m) == [j \in 1..m |-> j - 1]

\* ext.load_source(input1, input2), as the engine records it: the inputs are
\* taken in and the record of calls starts again with this one
LoadSource(e, in1, in2) ==
    [loaded |-> <<in1, in2>>,
     calls  |-> <<[op |-> "load_source", index |-> 0, bit |-> 0]>>]

\* ext.extract_bit(index) answering bit, as the engine records it
ExtractBit(e, index, bit) ==
    [e EXCEPT !.calls =
        Append(e.calls, [op |-> "extract_bit", index |-> index, bit |-> bit])]

-----------------------------------------------------------------------------
(* Inputs *)

\* the lists of bits of length lo..hi
BitLists(lo, hi) == UNION {[1..n -> Bit] : n \in lo..hi}

\* the indices handed to __getitem__ and __setitem__
IndexRange == (0 - (MaxLen + 1))..MaxLen

NoRet == [op |-> "none", index |-> 0, value |-> 0, err |-> "none",
          val |-> FALSE, list |-> << >>, n |-> 0]

\* the engine before any load_source: nothing loaded, no call made
NoEngine == [loaded |-> << >>, calls |-> << >>]

NoTrav == [t \in 1..MaxTrav |-> [st |-> "idle", seen |-> << >>]]

\* no call into the number theory functions is under way
NtIdle ==
    /\ fn = "none" /\ arg = 0 /\ npc = "idle" /\ k = 0
    /\ next_p = 0 /\ previous_p = 0 /\ out = [b |-> FALSE, n |-> 0]

\* no call of von_neumann is under way
VnIdle == vn_bits = << >> /\ vn_out = << >> /\ vpc = "idle"

\* no extractor has been constructed
TrevIdle ==
    /\ config = [m |-> 0] /\ ext = NoEngine /\ tpc = "none" /\ i = 0
    /\ bits = EmptyList /\ result = EmptyList /\ ncalls = 0
    /\ input1 = EmptyList /\ input2 = EmptyList

\* no list is under test
BufIdle ==
    /\ iterable = << >> /\ self = EmptyList /\ pos = 0 /\ pc = "idle"
    /\ ret = NoRet /\ trav = NoTrav

-----------------------------------------------------------------------------
(* Construction and read access: CompactBoolList(iterable), len, [], to_list *)

InitBuild ==
    /\ iterable \in BitLists(0, MaxLen)
    /\ self = EmptyList
    /\ pos = 0
    /\ pc = IF iterable = << >> THEN "ready" ELSE "init"
    /\ ret = NoRet
    /\ trav = NoTrav
    /\ NtIdle /\ VnIdle /\ TrevIdle

\* one round of "for item in iterable: self.append(item)"
CtorAppend ==
    /\ pc = "init"
    /\ pos < Len(iterable)
    /\ self' = Append_(self, iterable[pos + 1])
    /\ pos' = pos + 1
    /\ pc' = IF pos' = Len(iterable) THEN "ready" ELSE "init"
    /\ UNCHANGED <<iterable, ret, trav>>
    /\ UNCHANGED notBuf

\* len(self)
CallLen ==
    /\ pc = "ready" /\ ret = NoRet
    /\ ret' = [NoRet EXCEPT !.op = "len", !.n = self.length]
    /\ UNCHANGED <<self, iterable, pos, pc, trav>>
    /\ UNCHANGED notBuf

\* self[index]
CallGetItem(index) ==
    /\ pc = "ready" /\ ret = NoRet
    /\ LET r == GetItem(self, index)
       IN  ret' = [NoRet EXCEPT !.op = "get", !.index = index,
                                !.err = r.err, !.val = r.val]
    /\ UNCHANGED <<self, iterable, pos, pc, trav>>
    /\ UNCHANGED notBuf

\* self.to_list()
CallToList ==
    /\ pc = "ready" /\ ret = NoRet
    /\ LET r == ToList(self)
       IN  /\ ret' = [NoRet EXCEPT !.op = "to_list", !.list = r.list]
           /\ self' = r.self
    /\ UNCHANGED <<iterable, pos, pc, trav>>
    /\ UNCHANGED notBuf

\* the caller takes the value or the exception of its call and goes on
Resume ==
    /\ ret # NoRet
    /\ ret' = NoRet
    /\ UNCHANGED <<self, iterable, pos, pc, trav>>
    /\ UNCHANGED notBuf

NextBuild ==
    \/ CtorAppend
    \/ CallLen
    \/ \E index \in IndexRange : CallGetItem(index)
    \/ CallToList
    \/ Resume

SpecBuild == InitBuild /\ [][NextBuild]_vars

\* C5: the list built from a list L of bits has length len(L), gives L[i] at
\* every index 0 <= i < len(L), and to_list() gives L back in order (L empty,
\* shorter than a byte, or longer than one).
C5_RoundTrip ==
    pc = "ready" =>
        /\ self.length = Len(iterable)
        /\ ret.op = "len" => ret.n = Len(iterable)
        /\ (ret.op = "get" /\ 0 <= ret.index /\ ret.index < Len(iterable)) =>
               /\ ret.err = "none"
               /\ PyEq(ret.val, iterable[ret.index + 1])
        /\ ret.op = "to_list" => PyListEq(ret.list, iterable)

\* to_list() has returned for a list that fills one byte and starts another,
\* with both bit values in it
C5_Witness ==
    /\ pc = "ready"
    /\ ret.op = "to_list"
    /\ Len(iterable) = ByteBits + 1
    /\ iterable[1] = 0 /\ iterable[2] = 1 /\ iterable[ByteBits + 1] = 1
    /\ Len(ret.list) = ByteBits + 1

-----------------------------------------------------------------------------
(* Index access and assignment on a list that grows: [], []=, append *)

InitBuf ==
    /\ iterable = << >>
    /\ self = EmptyList
    /\ pos = 0
    /\ pc = "ready"
    /\ ret = NoRet
    /\ trav = NoTrav
    /\ NtIdle /\ VnIdle /\ TrevIdle

\* self.append(value)
CallAppend(value) ==
    /\ pc = "ready" /\ ret = NoRet
    /\ self.length < MaxLen
    /\ self' = Append_(self, value)
    /\ ret' = [NoRet EXCEPT !.op = "append", !.value = value]
    /\ UNCHANGED <<iterable, pos, pc, trav>>
    /\ UNCHANGED notBuf

\* self[index] = value
CallSetItem(index, value) ==
    /\ pc = "ready" /\ ret = NoRet
    /\ LET r == SetItem(self, index, value)
       IN  /\ self' = r.self
           /\ ret' = [NoRet EXCEPT !.op = "set", !.index = index,
                                   !.value = value, !.err = r.err]
    /\ UNCHANGED <<iterable, pos, pc, trav>>
    /\ UNCHANGED notBuf

NextBuf ==
    \/ \E value \in Bit : CallAppend(value)
    \/ \E index \in IndexRange : CallGetItem(index)
    \/ \E index \in IndexRange, value \in Bit : CallSetItem(index, value)
    \/ Resume

SpecBuf == InitBuf /\ [][NextBuf]_vars

\* the bit of s at position j, 0 <= j < length, as __getitem__ reads it
BitAt(s, j) == GetItem(s, j).val

\* what a call of self[index] must have done
GetPost(index) ==
    LET n == self.length
    IN  /\ self' = self
        /\ (ret'.err = "IndexError") <=> (index < 0 - n \/ index >= n)
        /\ (ret'.err = "none" /\ index < 0) => ret'.val = BitAt(self, n + index)

\* what a call of self[index] = value must have done
SetPost(index, value) ==
    LET n == self.length
        j == IF index < 0 THEN n + index ELSE index
    IN  /\ (ret'.err = "IndexError") <=> (index < 0 - n \/ index >= n)
        /\ ret'.err = "IndexError" => self' = self
        /\ ret'.err = "none" =>
               /\ self'.length = n
               /\ self'.index = self.index
               /\ Len(self'.data) = Len(self.data)
               /\ PyEq(BitAt(self', j), value)
               /\ \A o \in 0..(n - 1) :
                      o # j => BitAt(self', o) = BitAt(self, o)

\* C9: get(index) and set(index, bit) raise IndexError exactly when index is
\* outside [-length, length), and then change nothing; inside it a negative
\* index addresses the bit at length + index, and set changes that bit alone.
C9_IndexAccess ==
    [][/\ ret'.op = "get" => GetPost(ret'.index)
       /\ ret'.op = "set" => SetPost(ret'.index, ret'.value)]_vars

\* a set through a negative index has reached the second byte of a list of
\* nine bits, and a get on the empty list has been refused
C9_Witness ==
    \/ /\ ret.op = "set" /\ ret.err = "none" /\ ret.index = 0 - 1
       /\ self.length = ByteBits + 1 /\ ret.value = 1
    \/ /\ ret.op = "get" /\ ret.err = "IndexError" /\ self.length = 0

-----------------------------------------------------------------------------
(* Traversal: iter(self) and next(it), with several traversals of one list *)

InitIter ==
    /\ iterable \in BitLists(0, MaxIterLen)
    /\ self = FromList(EmptyList, iterable)
    /\ pos = Len(iterable)
    /\ pc = "ready"
    /\ ret = NoRet
    /\ trav = NoTrav
    /\ NtIdle /\ VnIdle /\ TrevIdle

\* it = iter(self): __iter__ returns self and touches no field.  The client
\* t drops whatever traversal it held before and starts to record this one.
Iter(t) ==
    /\ pc = "ready"
    /\ trav' = [trav EXCEPT ![t] = [st |-> "active", seen |-> << >>]]
    /\ UNCHANGED <<self, iterable, pos, pc, ret>>
    /\ UNCHANGED notBuf

\* next(it) for the traversal t: it is self, so this is self.__next__()
NextItem(t) ==
    /\ pc = "ready"
    /\ trav[t].st = "active"
    /\ Len(trav[t].seen) < MaxYield
    /\ LET r == Next_(self)
       IN  /\ self' = r.self
           /\ trav' = [trav EXCEPT ![t] =
                  IF r.stop
                  THEN [st |-> "done", seen |-> trav[t].seen]
                  ELSE [st |-> "active",
                        seen |-> Append(trav[t].seen,
                                        [index |-> self.index, val |-> r.val])]]
    /\ UNCHANGED <<iterable, pos, pc, ret>>
    /\ UNCHANGED notBuf

NextIter ==
    \/ \E t \in 1..MaxTrav : Iter(t)
    \/ \E t \in 1..MaxTrav : NextItem(t)

SpecIter == InitIter /\ [][NextIter]_vars

\* C1: every traversal starts at index 0 and yields the bits at indices
\* 0..length-1 in order, whatever other traversals of the same list did
\* before it or do meanwhile.
C1_IndependentTraversals ==
    \A t \in 1..MaxTrav :
        /\ \A j \in 1..Len(trav[t].seen) :
               /\ trav[t].seen[j].index = j - 1
               /\ PyEq(trav[t].seen[j].val, iterable[j])
        /\ trav[t].st = "done" => Len(trav[t].seen) = self.length

-----------------------------------------------------------------------------
(* Calls of is_prime, previous_prime, next_prime, closest_prime, next_na_set *)

Functions ==
    {"is_prime", "previous_prime", "next_prime", "closest_prime", "next_na_set"}

InitNT ==
    /\ fn \in Functions
    /\ arg \in 2..(IF fn = "next_na_set" THEN MaxNaK ELSE MaxK)
    /\ npc = "call"
    /\ k = 0 /\ next_p = 0 /\ previous_p = 0
    /\ out = [b |-> FALSE, n |-> 0]
    /\ BufIdle /\ VnIdle /\ TrevIdle

\* is_prime(arg)
CallIsPrime ==
    /\ npc = "call" /\ fn = "is_prime"
    /\ out' = [out EXCEPT !.b = IsPrime(arg)]
    /\ npc' = "done"
    /\ UNCHANGED <<fn, arg, k, next_p, previous_p>>
    /\ UNCHANGED notNt

\* closest_prime(arg) begins: next_p = next_prime(k) is called first
CallClosestPrime ==
    /\ npc = "call" /\ fn = "closest_prime"
    /\ npc' = "cp_next"
    /\ UNCHANGED <<fn, arg, k, next_p, previous_p, out>>
    /\ UNCHANGED notNt

\* next_prime(arg) is entered, by the caller or by closest_prime
NextPrimeEnter ==
    /\ \/ npc = "call" /\ fn = "next_prime"
       \/ npc = "cp_next"
    /\ k' = NextStart(arg)
    /\ npc' = "np_loop"
    /\ UNCHANGED <<fn, arg, next_p, previous_p, out>>
    /\ UNCHANGED notNt

\* while not is_prime(k + 1): k = k + 2, then return k + 1.  The outer
\* "while not stop" of next_prime runs its body once.
NextPrimeLoop ==
    /\ npc = "np_loop"
    /\ IF ~IsPrime(k + 1)
       THEN /\ k' = k + 2
            /\ UNCHANGED <<npc, next_p, out>>
       ELSE /\ IF fn = "closest_prime"
               THEN next_p' = k + 1 /\ npc' = "cp_prev" /\ UNCHANGED out
               ELSE out' = [out EXCEPT !.n = k + 1] /\ npc' = "done"
                    /\ UNCHANGED next_p
            /\ UNCHANGED k
    /\ UNCHANGED <<fn, arg, previous_p>>
    /\ UNCHANGED notNt

\* previous_prime(arg) is entered, by the caller or by closest_prime
PreviousPrimeEnter ==
    /\ \/ npc = "call" /\ fn = "previous_prime"
       \/ npc = "cp_prev"
    /\ k' = PreviousStart(arg)
    /\ npc' = "pp_loop"
    /\ UNCHANGED <<fn, arg, next_p, previous_p, out>>
    /\ UNCHANGED notNt

\* while not is_prime(k + 1): k = k - 2, then return k + 1
PreviousPrimeLoop ==
    /\ npc = "pp_loop"
    /\ IF ~IsPrime(k + 1)
       THEN /\ k' = k - 2
            /\ UNCHANGED <<npc, previous_p, out>>
       ELSE /\ IF fn = "closest_prime"
               THEN previous_p' = k + 1 /\ npc' = "cp_choose" /\ UNCHANGED out
               ELSE out' = [out EXCEPT !.n = k + 1] /\ npc' = "done"
                    /\ UNCHANGED previous_p
            /\ UNCHANGED k
    /\ UNCHANGED <<fn, arg, next_p>>
    /\ UNCHANGED notNt

\* closest_prime compares its two candidates and returns
ClosestPrimeChoose ==
    /\ npc = "cp_choose"
    /\ out' = [out EXCEPT !.n = Closest(arg, next_p, previous_p)]
    /\ npc' = "done"
    /\ UNCHANGED <<fn, arg, k, next_p, previous_p>>
    /\ UNCHANGED notNt

\* next_na_set(arg) is entered
NextNaSetEnter ==
    /\ npc = "call" /\ fn = "next_na_set"
    /\ k' = NextStart(arg)
    /\ npc' = "na_loop"
    /\ UNCHANGED <<fn, arg, next_p, previous_p, out>>
    /\ UNCHANGED notNt

\* the inner loop of next_na_set: while not is_prime(k + 1): k = k + 2
NextNaSetLoop ==
    /\ npc = "na_loop"
    /\ IF ~IsPrime(k + 1)
       THEN k' = k + 2 /\ UNCHANGED npc
       ELSE npc' = "na_check" /\ UNCHANGED k
    /\ UNCHANGED <<fn, arg, next_p, previous_p, out>>
    /\ UNCHANGED notNt

\* primes, _ = prime_facto(k) and the for loop over primes: the first prime
\* that passes the test sets stop = False and k = k + 2 and the outer loop
\* goes round again; with none, stop stays True and k + 1 is returned
NextNaSetCheck ==
    /\ npc = "na_check"
    /\ LET primes == PrimeFacto(k).factors
       IN  IF \E j \in 1..Len(primes) : OrderDivides(k, primes[j])
           THEN k' = k + 2 /\ npc' = "na_loop" /\ UNCHANGED out
           ELSE out' = [out EXCEPT !.n = k + 1] /\ npc' = "done" /\ UNCHANGED k
    /\ UNCHANGED <<fn, arg, next_p, previous_p>>
    /\ UNCHANGED notNt

NextNT ==
    \/ CallIsPrime
    \/ CallClosestPrime
    \/ NextPrimeEnter
    \/ NextPrimeLoop
    \/ PreviousPrimeEnter
    \/ PreviousPrimeLoop
    \/ ClosestPrimeChoose
    \/ NextNaSetEnter
    \/ NextNaSetLoop
    \/ NextNaSetCheck

SpecNT == InitNT /\ [][NextNT]_vars

\* the calls of next_na_set alone
InitNA == InitNT /\ fn = "next_na_set"

NextNA ==
    \/ NextNaSetEnter
    \/ NextNaSetLoop
    \/ NextNaSetCheck

\* next_na_set is plain synchronous code: while it can take a step it does
SpecNA == InitNA /\ [][NextNA]_vars /\ WF_vars(NextNA)

Returned(f) == fn = f /\ npc = "done"

\* C10: for 2 <= n <= MaxK, is_prime(n) is true exactly when n has no divisor
\* d with 1 < d < n; so it is true of 2 and 3 and false of squares of primes.
C10_IsPrimeAgrees ==
    Returned("is_prime") =>
        /\ out.b <=> (\A d \in 2..(arg - 1) : arg % d # 0)
        /\ arg \in {2, 3} => out.b
        /\ (\E q \in 2..arg : Prime(q) /\ q * q = arg) => ~out.b

\* is_prime has answered for the square of a prime
C10_Witness == Returned("is_prime") /\ arg = 49 /\ ~out.b

\* C2: for k >= 2, previous_prime(k) is prime, at most k, and no prime lies
\* above it up to k.
C2_PreviousPrime ==
    Returned("previous_prime") =>
        /\ Prime(out.n)
        /\ out.n <= arg
        /\ \A q \in (out.n + 1)..arg : ~Prime(q)

\* C3: for k >= 2, next_prime(k) is prime, at least k, with no prime from k
\* up to it; k itself is returned when k is prime.
C3_NextPrime ==
    Returned("next_prime") =>
        /\ Prime(out.n)
        /\ out.n >= arg
        /\ \A q \in arg..(out.n - 1) : ~Prime(q)
        /\ Prime(arg) => out.n = arg

\* C7: for k >= 2, closest_prime(k) is a prime at the least distance from k
\* among all primes, the lower one when two primes are equally near.
C7_ClosestPrime ==
    Returned("closest_prime") =>
        /\ Prime(out.n)
        /\ LET dist == IF out.n >= arg THEN out.n - arg ELSE arg - out.n
           IN  /\ \A q \in 2..(2 * arg) :
                      Prime(q) =>
                          (IF q >= arg THEN q - arg ELSE arg - q) >= dist
               /\ out.n > arg => ~Prime(arg - dist)

\* C6: for k >= 2, next_na_set(k) returns, and what it returns is the least
\* prime p >= k of which 2 is a primitive root (the order of 2 mod p is p-1).
C6_NextNaSet ==
    (fn = "next_na_set") ~>
        /\ Returned("next_na_set")
        /\ out.n >= arg
        /\ Prime(out.n) /\ PrimitiveRoot2(out.n)
        /\ \A q \in arg..(out.n - 1) : ~(Prime(q) /\ PrimitiveRoot2(q))

\* next_na_set has passed over a prime of which 2 is no primitive root
C6_Witness == Returned("next_na_set") /\ arg = 7 /\ out.n = 11

-----------------------------------------------------------------------------
(* Calls of von_neumann *)

InitVN ==
    /\ vn_bits \in BitLists(0, MaxBits)
    /\ vn_out = << >>
    /\ vpc = "call"
    /\ BufIdle /\ NtIdle /\ TrevIdle

\* von_neumann(bits)
CallVonNeumann ==
    /\ vpc = "call"
    /\ vn_out' = VonNeumann(vn_bits)
    /\ vpc' = "done"
    /\ UNCHANGED vn_bits
    /\ UNCHANGED notVn

NextVN == CallVonNeumann

SpecVN == InitVN /\ [][NextVN]_vars

RECURSIVE PairScan(_, _)
\* the pairs (bs[2p], bs[2p+1]) from pair p on, in order: the first bit of
\* each pair whose bits differ (0-based positions, as in the claim)
PairScan(bs, p) ==
    IF p >= Len(bs) \div 2 THEN << >>
    ELSE LET x == bs[2 * p + 1]
             y == bs[2 * p + 2]
         IN  (IF x # y THEN <<x>> ELSE << >>) \o PairScan(bs, p + 1)

\* C8: von_neumann(bits) is the scan of the pairs (bits[2p], bits[2p+1]),
\* p = 0..floor(len/2)-1, keeping bits[2p] where the two differ; an unpaired
\* last bit is dropped, the output has at most floor(len/2) bits, and the
\* empty and one-bit inputs give the empty output.
C8_VonNeumann ==
    vpc = "done" =>
        /\ vn_out = PairScan(vn_bits, 0)
        /\ Len(vn_out) <= Len(vn_bits) \div 2
        /\ Len(vn_bits) <= 1 => vn_out = << >>

\* von_neumann has returned for an input with an unpaired last bit, with a
\* kept pair of each kind and a dropped pair of each kind
C8_Witness ==
    /\ vpc = "done"
    /\ vn_bits = <<0, 1, 1, 0, 1, 1, 0, 0, 1>>
    /\ vn_out = <<0, 1>>

-----------------------------------------------------------------------------
(* Trevisan.extract *)

\* the lists of bits a caller hands to extract
Inputs == {FromList(EmptyList, l) : l \in BitLists(1, MaxInput)}

\* Trevisan(n, k, error): the configuration, with the output length m the
\* engine derives from n, k and error, and the engine built from it
InitTrev ==
    /\ config \in [m : 0..MaxM]
    /\ ext = NoEngine
    /\ tpc = "idle"
    /\ i = 0
    /\ bits = EmptyList
    /\ input1 = EmptyList /\ input2 = EmptyList
    /\ result = EmptyList
    /\ ncalls = 0
    /\ BufIdle /\ NtIdle /\ VnIdle

\* extract(in1, in2) up to the loop: load_source, m = config.m, bits = []
ExtractLoad(in1, in2) ==
    /\ tpc = "idle"
    /\ ncalls < MaxCalls
    /\ input1' = in1 /\ input2' = in2
    /\ ext' = LoadSource(ext, in1, in2)
    /\ bits' = EmptyList
    /\ i' = 0
    /\ tpc' = "loop"
    /\ ncalls' = ncalls + 1
    /\ UNCHANGED <<config, result>>
    /\ UNCHANGED notTrev

\* one round of the loop: bit = ext.extract_bit(i); bits.append(bit).  The
\* variable i counts the rounds done; the index is the next item of range(m).
ExtractBitStep ==
    /\ tpc = "loop"
    /\ i < Len(Range(config.m))
    /\ \E bit \in Bit :
          /\ ext' = ExtractBit(ext, Range(config.m)[i + 1], bit)
          /\ bits' = Append_(bits, bit)
    /\ i' = i + 1
    /\ UNCHANGED <<config, tpc, input1, input2, result, ncalls>>
    /\ UNCHANGED notTrev

\* return bits
ExtractReturn ==
    /\ tpc = "loop"
    /\ i = Len(Range(config.m))
    /\ result' = bits
    /\ tpc' = "idle"
    /\ UNCHANGED <<config, ext, i, bits, input1, input2, ncalls>>
    /\ UNCHANGED notTrev

NextTrev ==
    \/ \E in1 \in Inputs, in2 \in Inputs : ExtractLoad(in1, in2)
    \/ ExtractBitStep
    \/ ExtractReturn

SpecTrev == InitTrev /\ [][NextTrev]_vars

\* the jth extract_bit call on record, j = 0, 1, ...
BitCall(j) == ext.calls[j + 2]

\* C4: in every call of extract, load_source is called once and first, then
\* extract_bit with the indices 0, 1, ..., m-1 in this order, once each; the
\* list returned has length m and its bit j is what the engine answered for
\* index j; a second call goes through the same sequence from index 0 with
\* the inputs it was given.
C4_ExtractOrder ==
    ncalls > 0 =>
        /\ Len(ext.calls) >= 1
        /\ ext.calls[1].op = "load_source"
        /\ ext.loaded = <<input1, input2>>
        /\ \A j \in 0..(Len(ext.calls) - 2) :
               BitCall(j).op = "extract_bit" /\ BitCall(j).index = j
        /\ Len(ext.calls) <= config.m + 1
        /\ tpc = "loop" =>
               /\ bits.length = Len(ext.calls) - 1
               /\ \A j \in 0..(bits.length - 1) :
                      PyEq(GetItem(bits, j).val, BitCall(j).bit)
        /\ tpc = "idle" =>
               /\ Len(ext.calls) = config.m + 1
               /\ result.length = config.m
               /\ \A j \in 0..(config.m - 1) :
                      PyEq(GetItem(result, j).val, BitCall(j).bit)

\* a second call of extract has returned four bits, not all alike, for
\* inputs other than those of the first call
C4_Witness ==
    /\ ncalls = 2 /\ tpc = "idle"
    /\ config.m = 4
    /\ result.length = 4
    /\ BitCall(0).bit = 1 /\ BitCall(3).bit = 0
    /\ input1 # input2

=============================================================================
